---- MODULE Spec2Model ----
(***************************************************************************)
(* Model of rastervision.pytorch_learner.utils.utils: the confusion-matrix *)
(* accumulation compute_conf_mat, the derived metrics                      *)
(* compute_conf_mat_metrics and the Parallel module wrapper.               *)
(*                                                                         *)
(* A tensor is a record [shape, data]: shape is the sequence of dimension  *)
(* sizes and data maps every 0-based index tuple of that shape to the      *)
(* element.  The element-wise operators follow the broadcasting rule of    *)
(* the tensor library: shapes are aligned on their last dimension, a       *)
(* missing or size-1 dimension is repeated, any other mismatch raises.     *)
(* Floating-point values are modelled by the exact rational they stand     *)
(* for (plus NaN and +inf); rounding to 32 bits is not modelled.           *)
(***************************************************************************)
EXTENDS Integers, Sequences, FiniteSets, TLC

VARIABLES
    num_labels,     \* compute_conf_mat: the num_labels argument
    out,            \* compute_conf_mat: predicted labels (first batch)
    y,              \* compute_conf_mat: ground-truth labels (first batch)
    out2,           \* predicted labels of a second batch
    y2,             \* ground-truth labels of a second batch
    conf_mat,       \* result of compute_conf_mat(out, y) / input of the metrics
    conf_mat2,      \* result of compute_conf_mat(out2, y2)
    conf_mat_cat,   \* result of compute_conf_mat on the concatenated batches
    label_names,    \* compute_conf_mat_metrics: the label_names argument
    metrics,        \* result of compute_conf_mat_metrics
    locals,         \* compute_conf_mat_metrics: its local variables at return
    modules,        \* Parallel: the wrapped modules, in order
    xs,             \* Parallel.forward: the argument
    outputs         \* result of Parallel.forward

vars == <<num_labels, out, y, out2, y2, conf_mat, conf_mat2, conf_mat_cat,
          label_names, metrics, locals, modules, xs, outputs>>

\* ------------------------------------------------------------------ bounds
MaxLabels == 2      \* num_labels ranges over 1..MaxLabels
MaxNumel == 3       \* number of elements of a label batch
MaxBatches == 2     \* number of elements of two accumulated batches together
MaxSamples == 3     \* number of samples counted in a confusion matrix
MaxBranches == 2    \* number of modules wrapped by a Parallel
MaxInputs == 3      \* length of the sequence passed to Parallel.forward
MaxValue == 1       \* inputs of the wrapped modules range over 0..MaxValue

\* --------------------------------------------------------------- constants
EpsDen == 1000000   \* eps = 1e-6 = 1 / EpsDen

\* ------------------------------------------------------- results of a call
NotCalled == [status |-> "none"]
Raised(exc) == [status |-> "raised", exc |-> exc]
Returned(v) == [status |-> "ok", value |-> v]
IsRaised(r) == r.status = "raised"
IsReturned(r) == r.status = "ok"

\* ----------------------------------------------------------------- tensors
MaxOf(S) == CHOOSE m \in S : \A k \in S : k <= m

SeqMax(s) == IF Len(s) = 0 THEN 0 ELSE MaxOf({s[k] : k \in 1..Len(s)})

\* all 0-based index tuples of a tensor of the given shape
Indices(shape) ==
    {idx \in [1..Len(shape) -> 0..(SeqMax(shape) - 1)] :
        \A k \in 1..Len(shape) : idx[k] < shape[k]}

\* every tensor of the given shape with elements in 0..n-1
LabelTensors(shape, n) ==
    {[shape |-> shape, data |-> d] : d \in [Indices(shape) -> 0..(n - 1)]}

Numel(t) == Cardinality(DOMAIN t.data)

\* torch.arange(0, n)
arange(n) ==
    [shape |-> <<n>>,
     data |-> [idx \in Indices(<<n>>) |-> idx[1]]]

\* t[:, None] and t[:, None, None] on a one-dimensional tensor
Unsqueeze1(t) ==
    [shape |-> t.shape \o <<1>>,
     data |-> [idx \in Indices(t.shape \o <<1>>) |-> t.data[<<idx[1]>>]]]

\* mutant of Unsqueeze2: one new axis only, as in t[:, None]
Unsqueeze2_OneAxis(t) ==
    [shape |-> t.shape \o <<1>>,
     data |-> [idx \in Indices(t.shape \o <<1>>) |-> t.data[<<idx[1]>>]]]

Unsqueeze2(t) ==
    [shape |-> t.shape \o <<1, 1>>,
     data |-> [idx \in Indices(t.shape \o <<1, 1>>) |-> t.data[<<idx[1]>>]]]

\* the shape padded on the left with 1s to n dimensions
PadShape(s, n) == [k \in 1..n |-> IF k <= n - Len(s) THEN 1 ELSE s[k - (n - Len(s))]]

Broadcastable(s1, s2) ==
    LET n == IF Len(s1) >= Len(s2) THEN Len(s1) ELSE Len(s2)
        p1 == PadShape(s1, n)
        p2 == PadShape(s2, n)
    IN  \A k \in 1..n : p1[k] = p2[k] \/ p1[k] = 1 \/ p2[k] = 1

BroadcastShape(s1, s2) ==
    LET n == IF Len(s1) >= Len(s2) THEN Len(s1) ELSE Len(s2)
        p1 == PadShape(s1, n)
        p2 == PadShape(s2, n)
    IN  [k \in 1..n |-> IF p1[k] = 1 THEN p2[k] ELSE p1[k]]

\* the element of t that position idx of the broadcast result reads
BroadcastAt(t, idx) ==
    LET off == Len(idx) - Len(t.shape)
    IN  t.data[[k \in 1..Len(t.shape) |-> IF t.shape[k] = 1 THEN 0 ELSE idx[k + off]]]

\* a == b, element-wise with broadcasting
TensorEq(a, b) ==
    IF ~Broadcastable(a.shape, b.shape) THEN Raised("RuntimeError")
    ELSE Returned(
            [shape |-> BroadcastShape(a.shape, b.shape),
             data |-> [idx \in Indices(BroadcastShape(a.shape, b.shape)) |->
                          BroadcastAt(a, idx) = BroadcastAt(b, idx)]])

\* a & b on boolean tensors, element-wise with broadcasting
TensorAnd(a, b) ==
    IF ~Broadcastable(a.shape, b.shape) THEN Raised("RuntimeError")
    ELSE Returned(
            [shape |-> BroadcastShape(a.shape, b.shape),
             data |-> [idx \in Indices(BroadcastShape(a.shape, b.shape)) |->
                          BroadcastAt(a, idx) /\ BroadcastAt(b, idx)]])

\* the shape without its (0-based) dimension dim
DropDim(shape, dim) ==
    [k \in 1..(Len(shape) - 1) |-> IF k <= dim THEN shape[k] ELSE shape[k + 1]]

\* the index tuple idx of the reduced tensor with value v put back at dim
InsertAt(idx, dim, v) ==
    [k \in 1..(Len(idx) + 1) |->
        IF k <= dim THEN idx[k] ELSE IF k = dim + 1 THEN v ELSE idx[k - 1]]

\* mutant of SumDim: t.any(dim=dim), 1 if some element along dim is True
SumDim_Any(t, dim) ==
    IF dim >= Len(t.shape) THEN Raised("IndexError")
    ELSE Returned(
            [shape |-> DropDim(t.shape, dim),
             data |-> [idx \in Indices(DropDim(t.shape, dim)) |->
                          IF \E v \in 0..(t.shape[dim + 1] - 1) :
                                t.data[InsertAt(idx, dim, v)]
                          THEN 1 ELSE 0]])

\* t.sum(dim=dim, dtype=float32) on a boolean tensor: the number of True
\* elements along the (0-based) dimension dim
SumDim(t, dim) ==
    IF dim >= Len(t.shape) THEN Raised("IndexError")
    ELSE Returned(
            [shape |-> DropDim(t.shape, dim),
             data |-> [idx \in Indices(DropDim(t.shape, dim)) |->
                          Cardinality({v \in 0..(t.shape[dim + 1] - 1) :
                                          t.data[InsertAt(idx, dim, v)]})]])

\* ------------------------------------------------------- compute_conf_mat
\* mutant of compute_conf_mat: rows are predictions, columns the ground truth
compute_conf_mat_Transposed(o, gt, n) ==
    LET labels == arange(n)
        isPred == TensorEq(gt, Unsqueeze1(labels))
        isTrue == TensorEq(o, Unsqueeze2(labels))
    IN  IF IsRaised(isPred) THEN isPred
        ELSE IF IsRaised(isTrue) THEN isTrue
        ELSE LET both == TensorAnd(isPred.value, isTrue.value)
             IN  IF IsRaised(both) THEN both ELSE SumDim(both.value, 2)

compute_conf_mat(o, gt, n) ==
    LET labels == arange(n)
        isPred == TensorEq(o, Unsqueeze1(labels))
        isTrue == TensorEq(gt, Unsqueeze2(labels))
    IN  IF IsRaised(isPred) THEN isPred
        ELSE IF IsRaised(isTrue) THEN isTrue
        ELSE LET both == TensorAnd(isPred.value, isTrue.value)
             IN  IF IsRaised(both) THEN both ELSE SumDim(both.value, 2)

\* ---------------------------------------------------------------- inputs
Shapes1D == {<<n>> : n \in 0..MaxNumel}

\* height x width batches: every shape of at most MaxNumel elements, and the
\* square image of two rows
Shapes2D == {s \in [1..2 -> 1..MaxNumel] : s[1] * s[2] <= MaxNumel} \cup {<<2, 2>>}

\* torch.cat((a, b)) of two one-dimensional tensors
Cat(a, b) ==
    [shape |-> <<a.shape[1] + b.shape[1]>>,
     data |-> [idx \in Indices(<<a.shape[1] + b.shape[1]>>) |->
                  IF idx[1] < a.shape[1] THEN a.data[idx]
                  ELSE b.data[<<idx[1] - a.shape[1]>>]]]

\* a + b on two tensors of the same shape
MatAdd(a, b) ==
    [shape |-> a.shape,
     data |-> [idx \in Indices(a.shape) |-> a.data[idx] + b.data[idx]]]

\* the sum of the values of a function with a finite domain
RECURSIVE FnSum(_)
FnSum(f) ==
    IF DOMAIN f = {} THEN 0
    ELSE LET x == CHOOSE x \in DOMAIN f : TRUE
         IN  f[x] + FnSum([z \in DOMAIN f \ {x} |-> f[z]])

\* the number of positions where the ground truth is g and the prediction p
CountPairs(o, gt, g, p) ==
    Cardinality({idx \in DOMAIN o.data : gt.data[idx] = g /\ o.data[idx] = p})

\* r is the n x n matrix of the counts of (ground truth, prediction) pairs
IsCountMatrix(r, o, gt, n) ==
    /\ IsReturned(r)
    /\ r.value.shape = <<n, n>>
    /\ \A g \in 0..(n - 1), p \in 0..(n - 1) :
          r.value.data[<<g, p>>] = CountPairs(o, gt, g, p)

\* ------------------------------------------- specification: one call
InitConfMat ==
    /\ num_labels \in 1..MaxLabels
    /\ \E shape \in Shapes1D \cup Shapes2D :
          /\ out \in LabelTensors(shape, num_labels)
          /\ y \in LabelTensors(shape, num_labels)
    /\ conf_mat = NotCalled
    /\ out2 = NotCalled /\ y2 = NotCalled
    /\ conf_mat2 = NotCalled /\ conf_mat_cat = NotCalled
    /\ label_names = <<>> /\ metrics = NotCalled /\ locals = NotCalled
    /\ modules = <<>> /\ xs = NotCalled /\ outputs = NotCalled

CallComputeConfMat ==
    /\ conf_mat = NotCalled
    /\ conf_mat' = compute_conf_mat(out, y, num_labels)
    /\ UNCHANGED <<num_labels, out, y, out2, y2, conf_mat2, conf_mat_cat,
                   label_names, metrics, locals, modules, xs, outputs>>

NextConfMat == CallComputeConfMat

SpecConfMat == InitConfMat /\ [][NextConfMat]_vars

\* C1: on one-dimensional batches with labels in [0, num_labels) the result is
\* the num_labels x num_labels matrix whose cell [g][p] is the number of
\* positions k with y[k] = g and out[k] = p, and its cells sum to the length.
C1_CountMatrix ==
    (conf_mat # NotCalled /\ Len(out.shape) = 1) =>
        /\ IsCountMatrix(conf_mat, out, y, num_labels)
        /\ FnSum(conf_mat.value.data) = out.shape[1]

\* a call on a batch where a wrong prediction and a right one both occur
C1_Witness ==
    /\ conf_mat # NotCalled
    /\ out.shape = <<3>>
    /\ num_labels = 2
    /\ IsReturned(conf_mat)
    /\ conf_mat.value.data[<<0, 1>>] = 2
    /\ conf_mat.value.data[<<1, 1>>] = 1

\* C2 as stated: for a batch of any shape every element is counted in cell
\* [ground truth][predicted] of the num_labels x num_labels result.
C2_AnyShape ==
    conf_mat # NotCalled => IsCountMatrix(conf_mat, out, y, num_labels)

\* C2 amended: every element is counted in cell [ground truth][predicted] for a
\* one-dimensional batch and for a two-dimensional batch of one row.  For a
\* batch of H > 1 rows and W columns the call raises unless num_labels is 1 or
\* H, and then returns the num_labels x H matrix whose cell [g][h] is the
\* number of columns w with y[h][w] = g and out[h][w] = h (out[h][w] = 0 when
\* num_labels = 1).
C2_FlatOnly ==
    conf_mat # NotCalled =>
        IF Len(out.shape) = 1 \/ out.shape[1] = 1
        THEN IsCountMatrix(conf_mat, out, y, num_labels)
        ELSE IF num_labels # 1 /\ num_labels # out.shape[1]
        THEN IsRaised(conf_mat)
        ELSE /\ IsReturned(conf_mat)
             /\ conf_mat.value.shape = <<num_labels, out.shape[1]>>
             /\ \A g \in 0..(num_labels - 1), h \in 0..(out.shape[1] - 1) :
                   conf_mat.value.data[<<g, h>>] =
                       Cardinality({w \in 0..(out.shape[2] - 1) :
                           /\ y.data[<<h, w>>] = g
                           /\ out.data[<<h, w>>] = IF num_labels = 1 THEN 0 ELSE h})

\* a 2 x 2 batch whose result drops elements
C2_Witness ==
    /\ out.shape = <<2, 2>>
    /\ num_labels = 2
    /\ IsReturned(conf_mat)
    /\ FnSum(conf_mat.value.data) < Numel(out)

\* ------------------------------- specification: two batches, accumulated
InitAccum ==
    /\ num_labels \in 1..MaxLabels
    /\ \E n1 \in 0..MaxBatches : \E n2 \in 0..(MaxBatches - n1) :
          /\ out \in LabelTensors(<<n1>>, num_labels)
          /\ y \in LabelTensors(<<n1>>, num_labels)
          /\ out2 \in LabelTensors(<<n2>>, num_labels)
          /\ y2 \in LabelTensors(<<n2>>, num_labels)
    /\ conf_mat = NotCalled /\ conf_mat2 = NotCalled /\ conf_mat_cat = NotCalled
    /\ label_names = <<>> /\ metrics = NotCalled /\ locals = NotCalled
    /\ modules = <<>> /\ xs = NotCalled /\ outputs = NotCalled

\* compute_conf_mat on each batch
CallOnBatches ==
    /\ conf_mat = NotCalled
    /\ conf_mat' = compute_conf_mat(out, y, num_labels)
    /\ conf_mat2' = compute_conf_mat(out2, y2, num_labels)
    /\ UNCHANGED <<num_labels, out, y, out2, y2, conf_mat_cat,
                   label_names, metrics, locals, modules, xs, outputs>>

\* compute_conf_mat on the two batches concatenated, in either order
CallOnConcat ==
    /\ conf_mat # NotCalled
    /\ conf_mat_cat = NotCalled
    /\ \/ conf_mat_cat' = compute_conf_mat(Cat(out, out2), Cat(y, y2), num_labels)
       \/ conf_mat_cat' = compute_conf_mat(Cat(out2, out), Cat(y2, y), num_labels)
    /\ UNCHANGED <<num_labels, out, y, out2, y2, conf_mat, conf_mat2,
                   label_names, metrics, locals, modules, xs, outputs>>

NextAccum == CallOnBatches \/ CallOnConcat

SpecAccum == InitAccum /\ [][NextAccum]_vars

\* C3: the element-wise sum of the matrices of two batches is the matrix of
\* the concatenated batch, whichever batch comes first in the sum or in the
\* concatenation.
C3_Additive ==
    conf_mat_cat # NotCalled =>
        /\ IsReturned(conf_mat) /\ IsReturned(conf_mat2) /\ IsReturned(conf_mat_cat)
        /\ MatAdd(conf_mat.value, conf_mat2.value) = conf_mat_cat.value
        /\ MatAdd(conf_mat2.value, conf_mat.value) = conf_mat_cat.value

\* two non-empty batches that hit the same cell, so that counts add up
C3_Witness ==
    /\ conf_mat_cat # NotCalled
    /\ num_labels = 2
    /\ out.shape = <<1>> /\ out2.shape = <<1>>
    /\ IsReturned(conf_mat) /\ IsReturned(conf_mat2)
    /\ conf_mat.value.data[<<0, 1>>] = 1
    /\ conf_mat2.value.data[<<0, 1>>] = 1
    /\ conf_mat_cat.value.data[<<0, 1>>] = 2

\* ------------------------------------------------- floating-point values
\* A non-negative float is the rational num/den in lowest terms (den > 0),
\* +inf is 1/0 and NaN is 0/0.
RECURSIVE GCD(_, _)
GCD(a, b) == IF b = 0 THEN a ELSE GCD(b, a % b)

Rat(n, d) == LET g == GCD(n, d) IN [num |-> n \div g, den |-> d \div g]

NaN == [num |-> 0, den |-> 0]
Inf == [num |-> 1, den |-> 0]
Zero == [num |-> 0, den |-> 1]
One == [num |-> 1, den |-> 1]
FromInt(n) == [num |-> n, den |-> 1]

IsNaN(a) == a = NaN
IsFinite(a) == a.den > 0

\* a <= b on finite values
RatLeq(a, b) == a.num * b.den <= b.num * a.den

RatAdd(a, b) ==
    IF IsNaN(a) \/ IsNaN(b) THEN NaN
    ELSE IF a = Inf \/ b = Inf THEN Inf
    ELSE Rat(a.num * b.den + b.num * a.den, a.den * b.den)

RatMul(a, b) ==
    IF IsNaN(a) \/ IsNaN(b) THEN NaN
    ELSE IF a = Inf \/ b = Inf THEN (IF a = Zero \/ b = Zero THEN NaN ELSE Inf)
    ELSE Rat(a.num * b.num, a.den * b.den)

\* a / b: 0/0 and inf/inf are NaN, x/0 is inf for x > 0; never an exception
RatDiv(a, b) ==
    IF IsNaN(a) \/ IsNaN(b) THEN NaN
    ELSE IF b = Zero THEN (IF a = Zero THEN NaN ELSE Inf)
    ELSE IF b = Inf THEN (IF a = Inf THEN NaN ELSE Zero)
    ELSE IF a = Inf THEN Inf
    ELSE Rat(a.num * b.den, a.den * b.num)

\* torch.max(a, b), element-wise: the larger value, NaN if either is NaN
RatMax(a, b) ==
    IF IsNaN(a) \/ IsNaN(b) THEN NaN
    ELSE IF a = Inf \/ b = Inf THEN Inf
    ELSE IF RatLeq(a, b) THEN b ELSE a

\* the sum of the float values of a function with a finite domain
RECURSIVE RatSum(_)
RatSum(f) ==
    IF DOMAIN f = {} THEN Zero
    ELSE LET x == CHOOSE x \in DOMAIN f : TRUE
         IN  RatAdd(f[x], RatSum([z \in DOMAIN f \ {x} |-> f[z]]))

\* ----------------------------------------------- compute_conf_mat_metrics
\* cm is a square tensor of counts; vectors are functions on 0..n-1
Classes(cm) == 0..(cm.shape[1] - 1)

gt_count(cm) == [i \in Classes(cm) |-> FnSum([j \in Classes(cm) |-> cm.data[<<i, j>>]])]

\* mutant of pred_count: sums over dim=1 (the rows) as gt_count does
pred_count_Rows(cm) ==
    [j \in Classes(cm) |-> FnSum([i \in Classes(cm) |-> cm.data[<<j, i>>]])]

pred_count(cm) == [j \in Classes(cm) |-> FnSum([i \in Classes(cm) |-> cm.data[<<i, j>>]])]

total(cm) == FnSum(cm.data)

true_pos(cm) == [i \in Classes(cm) |-> cm.data[<<i, i>>]]

precision(cm, eps) ==
    [i \in Classes(cm) |->
        RatDiv(FromInt(true_pos(cm)[i]), RatMax(FromInt(pred_count(cm)[i]), eps))]

recall(cm, eps) ==
    [i \in Classes(cm) |->
        RatDiv(FromInt(true_pos(cm)[i]), RatMax(FromInt(gt_count(cm)[i]), eps))]

\* mutant of HarmonicF1: the factor 2 is missing
HarmonicF1_NoFactor(p, r, eps) == RatDiv(RatMul(p, r), RatMax(RatAdd(p, r), eps))

\* 2 * p * r / max(p + r, eps)
HarmonicF1(p, r, eps) ==
    RatDiv(RatMul(RatMul(FromInt(2), p), r), RatMax(RatAdd(p, r), eps))

f1(cm, eps) ==
    [i \in Classes(cm) |-> HarmonicF1(precision(cm, eps)[i], recall(cm, eps)[i], eps)]

\* mutant of weights: not divided by total
weights_Unnormalised(cm) == [i \in Classes(cm) |-> FromInt(gt_count(cm)[i])]

\* mutant of weights: total floored like the other denominators
weights_Guarded(cm) ==
    [i \in Classes(cm) |->
        RatDiv(FromInt(gt_count(cm)[i]),
               RatMax(FromInt(total(cm)), [num |-> 1, den |-> EpsDen]))]

weights(cm) ==
    [i \in Classes(cm) |-> RatDiv(FromInt(gt_count(cm)[i]), FromInt(total(cm)))]

weighted_precision(cm, eps) ==
    RatSum([i \in Classes(cm) |-> RatMul(weights(cm)[i], precision(cm, eps)[i])])

weighted_recall(cm, eps) ==
    RatSum([i \in Classes(cm) |-> RatMul(weights(cm)[i], recall(cm, eps)[i])])

\* mutant of weighted_f1: the weighted average of the per-class f1
weighted_f1_MeanOfF1(cm, eps) ==
    RatSum([i \in Classes(cm) |-> RatMul(weights(cm)[i], f1(cm, eps)[i])])

weighted_f1(cm, eps) ==
    HarmonicF1(weighted_precision(cm, eps), weighted_recall(cm, eps), eps)

\* mutant of FormatKey: the metric name comes first
FormatKey_Swapped(label, suffix) == suffix \o "_" \o label

\* '{}_precision'.format(label) and its siblings
FormatKey(label, suffix) == label \o "_" \o suffix

\* dict.update: the entries of new replace those of d under the same key
DictUpdate(d, new) ==
    [k \in DOMAIN d \cup DOMAIN new |-> IF k \in DOMAIN new THEN new[k] ELSE d[k]]

\* the loop over enumerate(label_names), from position ind on (1-based here,
\* class ind - 1)
RECURSIVE UpdateLabels(_, _, _, _, _)
UpdateLabels(d, names, ind, cm, eps) ==
    IF ind > Len(names) THEN d
    ELSE UpdateLabels(
            DictUpdate(d,
                (FormatKey(names[ind], "precision") :> precision(cm, eps)[ind - 1]) @@
                (FormatKey(names[ind], "recall") :> recall(cm, eps)[ind - 1]) @@
                (FormatKey(names[ind], "f1") :> f1(cm, eps)[ind - 1])),
            names, ind + 1, cm, eps)

compute_conf_mat_metrics(cm, names, eps) ==
    UpdateLabels(("avg_precision" :> weighted_precision(cm, eps)) @@
                 ("avg_recall" :> weighted_recall(cm, eps)) @@
                 ("avg_f1" :> weighted_f1(cm, eps)),
                 names, 1, cm, eps)

\* the default eps=1e-6
DefaultEps == [num |-> 1, den |-> EpsDen]

\* the local variables of compute_conf_mat_metrics when it returns
MetricsLocals(cm, eps) ==
    [gt_count |-> gt_count(cm), pred_count |-> pred_count(cm), total |-> total(cm),
     true_pos |-> true_pos(cm), precision |-> precision(cm, eps),
     recall |-> recall(cm, eps), f1 |-> f1(cm, eps), weights |-> weights(cm),
     weighted_precision |-> weighted_precision(cm, eps),
     weighted_recall |-> weighted_recall(cm, eps),
     weighted_f1 |-> weighted_f1(cm, eps)]

\* ----------------------------------------------------- metrics: inputs
\* the n x n matrix of zeros
ZeroMat(n) ==
    [shape |-> <<n, n>>,
     data |-> [idx \in Indices(<<n, n>>) |-> 0]]

\* every n x n matrix of counts of at most k samples
RECURSIVE CountMats(_, _)
CountMats(n, k) ==
    IF k = 0 THEN {ZeroMat(n)}
    ELSE LET prev == CountMats(n, k - 1)
         IN  prev \cup {[m EXCEPT !.data[cell] = @ + 1] :
                            m \in prev, cell \in Indices(<<n, n>>)}

\* the matrix [[5, 1], [2, 10]] of the documentation's example
ExampleMat ==
    [shape |-> <<2, 2>>,
     data |-> (<<0, 0>> :> 5) @@ (<<0, 1>> :> 1) @@ (<<1, 0>> :> 2) @@ (<<1, 1>> :> 10)]

LabelPool == {"a", "b", "avg"}

\* ------------------------------------- specification: one metrics report
InitMetrics ==
    /\ num_labels \in 1..MaxLabels
    /\ conf_mat \in {Returned(m) : m \in CountMats(num_labels, MaxSamples) \cup
                        (IF num_labels = 2 THEN {ExampleMat} ELSE {})}
    /\ label_names \in [1..num_labels -> LabelPool]
    /\ metrics = NotCalled /\ locals = NotCalled
    /\ out = NotCalled /\ y = NotCalled /\ out2 = NotCalled /\ y2 = NotCalled
    /\ conf_mat2 = NotCalled /\ conf_mat_cat = NotCalled
    /\ modules = <<>> /\ xs = NotCalled /\ outputs = NotCalled

CallComputeConfMatMetrics ==
    /\ metrics = NotCalled
    /\ metrics' = Returned(compute_conf_mat_metrics(conf_mat.value, label_names, DefaultEps))
    /\ locals' = MetricsLocals(conf_mat.value, DefaultEps)
    /\ UNCHANGED <<num_labels, out, y, out2, y2, conf_mat, conf_mat2, conf_mat_cat,
                   label_names, modules, xs, outputs>>

NextMetrics == CallComputeConfMatMetrics

SpecMetrics == InitMetrics /\ [][NextMetrics]_vars

\* ---------------------------------------------------- metrics: properties
MetricsCalled == metrics # NotCalled

Mat == conf_mat.value

ColSum(i) == FnSum([g \in Classes(Mat) |-> Mat.data[<<g, i>>]])

RowSum(i) == FnSum([q \in Classes(Mat) |-> Mat.data[<<i, q>>]])

\* v = n / max(c, eps) for integers n and c, by cross-multiplication
IsCountRatio(v, n, c) ==
    /\ IsFinite(v)
    /\ IF c * EpsDen >= 1 THEN v.num * c = n * v.den
       ELSE v.num = n * EpsDen * v.den

\* f = 2 * p * r / max(p + r, eps) for finite p and r, by cross-multiplication
IsF1Of(f, p, r) ==
    LET sn == p.num * r.den + r.num * p.den
        sd == p.den * r.den
    IN  /\ IsFinite(f)
        /\ IF sn * EpsDen >= sd
           THEN f.num * sn * sd = 2 * p.num * r.num * sd * f.den
           ELSE f.num * sd = 2 * p.num * r.num * EpsDen * f.den

\* C4: per class i, precision = matrix[i][i] / max(sum of column i, eps),
\* recall = matrix[i][i] / max(sum of row i, eps) and
\* f1 = 2 * precision * recall / max(precision + recall, eps); on
\* [[5,1],[2,10]] precision is [5/7, 10/11] and recall is [5/6, 10/12].
C4_PerClass ==
    MetricsCalled =>
        /\ \A i \in Classes(Mat) :
              /\ IsCountRatio(locals.precision[i], Mat.data[<<i, i>>], ColSum(i))
              /\ IsCountRatio(locals.recall[i], Mat.data[<<i, i>>], RowSum(i))
              /\ IsF1Of(locals.f1[i], locals.precision[i], locals.recall[i])
        /\ Mat = ExampleMat =>
              /\ locals.precision = (0 :> [num |-> 5, den |-> 7]) @@
                                    (1 :> [num |-> 10, den |-> 11])
              /\ locals.recall = (0 :> [num |-> 5, den |-> 6]) @@
                                 (1 :> [num |-> 5, den |-> 6])

\* the metrics of a matrix whose row sums and column sums differ
C4_Witness ==
    /\ MetricsCalled
    /\ Mat = ExampleMat
    /\ locals.precision[0] # locals.recall[0]

InUnitInterval(v) == IsFinite(v) /\ RatLeq(Zero, v) /\ RatLeq(v, One)

Reports(key, v) == key \in DOMAIN metrics.value /\ metrics.value[key] = v

\* C6: on the all-zero matrix the call returns, every per-class precision,
\* recall and f1 is 0, and the three averages are NaN (0/0 in the weights).
C6_ZeroMatrix ==
    (MetricsCalled /\ Mat = ZeroMat(num_labels)) =>
        /\ IsReturned(metrics)
        /\ \A i \in Classes(Mat) :
              /\ locals.precision[i] = Zero
              /\ locals.recall[i] = Zero
              /\ locals.f1[i] = Zero
        /\ IsNaN(locals.weighted_precision)
        /\ IsNaN(locals.weighted_recall)
        /\ IsNaN(locals.weighted_f1)
        /\ (\A k \in 1..Len(label_names) : label_names[k] # "avg") =>
              /\ Reports("avg_precision", NaN)
              /\ Reports("avg_recall", NaN)
              /\ Reports("avg_f1", NaN)
              /\ \A k \in 1..Len(label_names) :
                    /\ Reports(label_names[k] \o "_precision", Zero)
                    /\ Reports(label_names[k] \o "_recall", Zero)
                    /\ Reports(label_names[k] \o "_f1", Zero)

C6_Witness ==
    /\ MetricsCalled
    /\ Mat = ZeroMat(2)
    /\ label_names = <<"a", "b">>
    /\ IsNaN(metrics.value["avg_f1"])

\* the average of the per-class f1 weighted by gt_count / total (total > 0)
WeightedMeanOfF1 ==
    RatDiv(RatSum([i \in Classes(Mat) |-> RatMul(FromInt(RowSum(i)), locals.f1[i])]),
           FromInt(FnSum(Mat.data)))

\* C7: avg_precision and avg_recall are the sums of the per-class values
\* weighted by gt_count[i] / total, and avg_f1 is
\* 2 * avg_precision * avg_recall / max(avg_precision + avg_recall, eps), which
\* on [[5,1],[2,10]] is not the weighted average of the per-class f1.
C7_Averages ==
    (MetricsCalled /\ FnSum(Mat.data) > 0) =>
        /\ RatMul(locals.weighted_precision, FromInt(FnSum(Mat.data))) =
              RatSum([i \in Classes(Mat) |->
                        RatMul(FromInt(RowSum(i)), locals.precision[i])])
        /\ RatMul(locals.weighted_recall, FromInt(FnSum(Mat.data))) =
              RatSum([i \in Classes(Mat) |->
                        RatMul(FromInt(RowSum(i)), locals.recall[i])])
        /\ IsF1Of(locals.weighted_f1, locals.weighted_precision, locals.weighted_recall)
        /\ Mat = ExampleMat =>
              /\ locals.weighted_f1 = [num |-> 26, den |-> 31]
              /\ locals.weighted_f1 # WeightedMeanOfF1

C7_Witness ==
    /\ MetricsCalled
    /\ FnSum(Mat.data) > 0
    /\ locals.weighted_f1 # WeightedMeanOfF1

\* the report holds the averages and, per label, the metrics of its class
ReportMatchesLabels ==
    /\ Reports("avg_precision", locals.weighted_precision)
    /\ Reports("avg_recall", locals.weighted_recall)
    /\ Reports("avg_f1", locals.weighted_f1)
    /\ \A k \in 1..Len(label_names) :
          /\ Reports(label_names[k] \o "_precision", locals.precision[k - 1])
          /\ Reports(label_names[k] \o "_recall", locals.recall[k - 1])
          /\ Reports(label_names[k] \o "_f1", locals.f1[k - 1])

\* C8 as stated: for any list of label names as long as the matrix dimension.
C8_AnyNames == MetricsCalled => ReportMatchesLabels

NamesDistinct ==
    \A j \in 1..Len(label_names), k \in 1..Len(label_names) :
        label_names[j] = label_names[k] => j = k

\* C8 amended: for any list of pairwise distinct label names, none of them
\* "avg", as long as the matrix dimension, the report holds the weighted
\* averages under avg_precision, avg_recall, avg_f1 and the metrics of class i
\* under L_precision, L_recall, L_f1 for the label L at index i, and no other key.
C8_DistinctNames ==
    (/\ MetricsCalled
     /\ NamesDistinct
     /\ \A k \in 1..Len(label_names) : label_names[k] # "avg") =>
        /\ ReportMatchesLabels
        /\ Cardinality(DOMAIN metrics.value) = 3 + 3 * Len(label_names)

\* two distinct labels whose classes have different metrics
C8_Witness ==
    /\ MetricsCalled
    /\ label_names = <<"b", "a">>
    /\ locals.precision[0] # locals.precision[1]
    /\ metrics.value["b_precision"] = locals.precision[0]

\* C9: on a diagonal matrix every class with a positive count has
\* precision = recall = f1 = 1.
C9_Diagonal ==
    (/\ MetricsCalled
     /\ \A g \in Classes(Mat), q \in Classes(Mat) : g # q => Mat.data[<<g, q>>] = 0) =>
        \A i \in Classes(Mat) :
            Mat.data[<<i, i>>] > 0 =>
                /\ locals.precision[i] = One
                /\ locals.recall[i] = One
                /\ locals.f1[i] = One

C9_Witness ==
    /\ MetricsCalled
    /\ num_labels = 2
    /\ Mat.data = (<<0, 0>> :> 2) @@ (<<0, 1>> :> 0) @@ (<<1, 0>> :> 0) @@ (<<1, 1>> :> 1)
    /\ locals.f1[0] = One /\ locals.f1[1] = One

\* ----------------------------------------------------------------- Parallel
\* The wrapped modules are arbitrary callables; three distinguishable ones
\* stand for them, on integers standing for the tensors they transform.
ModulePool == {"Identity", "Double", "Negate"}

\* m(x)
ApplyModule(m, x) ==
    CASE m = "Identity" -> x
      [] m = "Double" -> 2 * x
      [] m = "Negate" -> 0 - x

\* zip(a, b): the pairs up to the end of the shorter sequence
Zip(a, b) ==
    [k \in 1..(IF Len(a) <= Len(b) THEN Len(a) ELSE Len(b)) |-> <<a[k], b[k]>>]

\* the argument of forward: one tensor, or a sequence of tensors
TensorArg(v) == [kind |-> "tensor", value |-> v]
SequenceArg(items) == [kind |-> "sequence", items |-> items]

\* mutant of forward: no assertion on the length of the sequence
forward_Unchecked(self, arg) ==
    IF arg.kind = "tensor"
    THEN Returned([k \in 1..Len(self) |-> ApplyModule(self[k], arg.value)])
    ELSE LET pairs == Zip(self, arg.items)
         IN  Returned([k \in 1..Len(pairs) |-> ApplyModule(pairs[k][1], pairs[k][2])])

\* Parallel.forward(xs) on the module list self
forward(self, arg) ==
    IF arg.kind = "tensor"
    THEN Returned([k \in 1..Len(self) |-> ApplyModule(self[k], arg.value)])
    ELSE IF Len(arg.items) # Len(self) THEN Raised("AssertionError")
    ELSE LET pairs == Zip(self, arg.items)
         IN  Returned([k \in 1..Len(pairs) |-> ApplyModule(pairs[k][1], pairs[k][2])])

\* -------------------------------------- specification: one forward call
InitParallel ==
    /\ \E n \in 0..MaxBranches : modules \in [1..n -> ModulePool]
    /\ \/ \E v \in 0..MaxValue : xs = TensorArg(v)
       \/ \E n \in 0..MaxInputs : \E items \in [1..n -> 0..MaxValue] :
             xs = SequenceArg(items)
    /\ outputs = NotCalled
    /\ num_labels = 1
    /\ out = NotCalled /\ y = NotCalled /\ out2 = NotCalled /\ y2 = NotCalled
    /\ conf_mat = NotCalled /\ conf_mat2 = NotCalled /\ conf_mat_cat = NotCalled
    /\ label_names = <<>> /\ metrics = NotCalled /\ locals = NotCalled

CallForward ==
    /\ outputs = NotCalled
    /\ outputs' = forward(modules, xs)
    /\ UNCHANGED <<num_labels, out, y, out2, y2, conf_mat, conf_mat2, conf_mat_cat,
                   label_names, metrics, locals, modules, xs>>

NextParallel == CallForward

SpecParallel == InitParallel /\ [][NextParallel]_vars

\* C10: on a single tensor forward returns the tuple of every branch applied
\* to it; on a sequence of as many inputs as branches the tuple of branch k
\* applied to input k, in branch order; on a sequence of any other length it
\* raises and returns nothing.
C10_Forward ==
    outputs # NotCalled =>
        IF xs.kind = "tensor"
        THEN /\ IsReturned(outputs)
             /\ Len(outputs.value) = Len(modules)
             /\ \A k \in 1..Len(modules) :
                   outputs.value[k] = ApplyModule(modules[k], xs.value)
        ELSE IF Len(xs.items) = Len(modules)
        THEN /\ IsReturned(outputs)
             /\ Len(outputs.value) = Len(modules)
             /\ \A k \in 1..Len(modules) :
                   outputs.value[k] = ApplyModule(modules[k], xs.items[k])
        ELSE IsRaised(outputs)

\* a sequence longer than the two branches it is passed to
C10_Witness ==
    /\ outputs # NotCalled
    /\ Len(modules) = 2
    /\ xs.kind = "sequence"
    /\ Len(xs.items) = 3
    /\ IsRaised(outputs)

====
